---- MODULE Spec2Model ----
(***************************************************************************)
(* Restraint score calculator (src/Restraints_quality_calculator.py).      *)
(*                                                                         *)
(* One run of main(): compute_restraint_score(excel_path) reads the four   *)
(* lengths from fixed cells, reads and cleans the restraint table,         *)
(* computes the per-row columns and the score, writes <input>_output.xlsx, *)
(* prints the report and returns.                                          *)
(*                                                                         *)
(* Floating point values are modelled exactly: a finite value is the real  *)
(* number n/d + l*ln(2) (n/d in lowest terms, d > 0), next to +inf, -inf   *)
(* and NaN with their IEEE-754 arithmetic.  The ln(2) part lets exp() be   *)
(* computed exactly on the distances D0 + l*ln(2); rounding is not         *)
(* modelled.                                                               *)
(***************************************************************************)
EXTENDS Integers, Sequences, FiniteSets

VARIABLES sheet, pc, lengths, df, score, out_file, console, error

vars == <<sheet, pc, lengths, df, score, out_file, console, error>>

(***************************************************************************)
(* Bounds of the explored inputs.                                          *)
(***************************************************************************)
MaxRows == 2
MaxLength == 2

(***************************************************************************)
(* float64 values.                                                         *)
(***************************************************************************)
Abs(i) == IF i < 0 THEN -i ELSE i

RECURSIVE Gcd(_, _)
Gcd(a, b) == IF b = 0 THEN a ELSE Gcd(b, a % b)

FinL(n, d, l) ==
    LET s == IF d < 0 THEN -1 ELSE 1
        g == Gcd(Abs(n), Abs(d))
    IN  [k |-> "fin", n |-> (s * n) \div g, d |-> (s * d) \div g, l |-> l]

Fin(n, d) == FinL(n, d, 0)
F(i) == Fin(i, 1)
NaN == [k |-> "nan", n |-> 0, d |-> 1, l |-> 0]
PInf == [k |-> "pinf", n |-> 0, d |-> 1, l |-> 0]
NInf == [k |-> "ninf", n |-> 0, d |-> 1, l |-> 0]

IsNaN(a) == a.k = "nan"
IsFinite(a) == a.k = "fin"
IsInf(a) == a.k \in {"pinf", "ninf"}

\* sign of a value that is not NaN (finite operands of * and / are rational)
Sign(a) ==
    CASE a.k = "pinf" -> 1
      [] a.k = "ninf" -> -1
      [] a.k = "fin" /\ a.l = 0 -> IF a.n > 0 THEN 1 ELSE IF a.n < 0 THEN -1 ELSE 0

Signed(s) == IF s > 0 THEN PInf ELSE NInf

Neg(a) ==
    CASE a.k = "nan" -> NaN
      [] a.k = "pinf" -> NInf
      [] a.k = "ninf" -> PInf
      [] a.k = "fin" -> FinL(-a.n, a.d, -a.l)

Add(a, b) ==
    IF IsNaN(a) \/ IsNaN(b) THEN NaN
    ELSE IF IsFinite(a) /\ IsFinite(b)
         THEN FinL(a.n * b.d + b.n * a.d, a.d * b.d, a.l + b.l)
    ELSE IF IsFinite(a) THEN b
    ELSE IF IsFinite(b) THEN a
    ELSE IF a.k = b.k THEN a ELSE NaN

Sub(a, b) == Add(a, Neg(b))

Mul(a, b) ==
    IF IsNaN(a) \/ IsNaN(b) THEN NaN
    ELSE IF IsFinite(a) /\ IsFinite(b)
         THEN CASE a.l = 0 /\ b.l = 0 -> Fin(a.n * b.n, a.d * b.d)
    ELSE IF Sign(a) = 0 \/ Sign(b) = 0 THEN NaN
    ELSE Signed(Sign(a) * Sign(b))

\* faulty variant: a guarded division that yields 0 for a zero divisor
DivGuarded(a, b) ==
    IF IsNaN(a) \/ IsNaN(b) THEN NaN
    ELSE IF IsInf(a) /\ IsInf(b) THEN NaN
    ELSE IF IsInf(a) THEN Signed(Sign(a) * (IF Sign(b) < 0 THEN -1 ELSE 1))
    ELSE IF IsInf(b) THEN F(0)
    ELSE IF Sign(b) = 0 THEN F(0)
    ELSE CASE a.l = 0 /\ b.l = 0 -> Fin(a.n * b.d, a.d * b.n)

\* numpy division: x/0 is +-inf, 0/0 is NaN, nothing is raised
Div(a, b) ==
    IF IsNaN(a) \/ IsNaN(b) THEN NaN
    ELSE IF IsInf(a) /\ IsInf(b) THEN NaN
    ELSE IF IsInf(a) THEN Signed(Sign(a) * (IF Sign(b) < 0 THEN -1 ELSE 1))
    ELSE IF IsInf(b) THEN F(0)
    ELSE IF Sign(b) = 0
         THEN (IF Sign(a) = 0 THEN NaN ELSE Signed(Sign(a)))
    ELSE CASE a.l = 0 /\ b.l = 0 -> Fin(a.n * b.d, a.d * b.n)

Sq(a) == Mul(a, a)

RECURSIVE Pow2(_)
Pow2(e) == IF e = 0 THEN 1 ELSE 2 * Pow2(e - 1)

\* exp of l*ln(2) is 2^l
Exp(a) ==
    CASE a.k = "nan" -> NaN
      [] a.k = "pinf" -> PInf
      [] a.k = "ninf" -> F(0)
      [] a.k = "fin" /\ a.n = 0 ->
            IF a.l >= 0 THEN F(Pow2(a.l)) ELSE Fin(1, Pow2(-a.l))

(***************************************************************************)
(* Configuration constants.                                                *)
(***************************************************************************)
D0 == Fin(18, 10)

\* faulty variant: the block read one row too high (B1..B4)
LENGTH_CELLS_RowAbove ==
    [Ls |-> <<0, 1>>, Lx |-> <<1, 1>>, Ly |-> <<2, 1>>, Lz |-> <<3, 1>>]

\* 0-indexed (row, column) of B2..B5
LENGTH_CELLS ==
    [Ls |-> <<1, 1>>, Lx |-> <<2, 1>>, Ly |-> <<3, 1>>, Lz |-> <<4, 1>>]

TABLE_SKIPROWS == 6

REQUIRED_COLUMNS ==
    <<"prot x coor", "prot y coor", "prot z coor", "sl", "wi", "dij">>

Range(s) == {s[i] : i \in DOMAIN s}

(***************************************************************************)
(* Spreadsheet cells as the reader hands them over: a number (an empty     *)
(* cell is NaN) or a text.                                                 *)
(***************************************************************************)
Num(v) == [t |-> "num", v |-> v, s |-> ""]
Text(s) == [t |-> "text", v |-> NaN, s |-> s]
Empty == Num(NaN)

\* the texts of the model that parse as a float, and their values
FloatTexts == {"inf", "2"}
ParseFloat(s) == CASE s = "inf" -> PInf [] s = "2" -> F(2)

\* float(x): raises ValueError on a text that is no float literal
PyFloat(cell) ==
    IF cell.t = "num" THEN [ok |-> TRUE, v |-> cell.v]
    ELSE IF cell.s \in FloatTexts THEN [ok |-> TRUE, v |-> ParseFloat(cell.s)]
    ELSE [ok |-> FALSE, v |-> NaN]

\* pd.to_numeric(errors="coerce") on one value
to_numeric(cell) ==
    IF cell.t = "num" THEN cell.v
    ELSE IF cell.s \in FloatTexts THEN ParseFloat(cell.s)
    ELSE NaN

(***************************************************************************)
(* pd.read_excel: the sheet is a rectangular grid (a sequence of rows);    *)
(* the used range ends at the last non-empty row and column.               *)
(***************************************************************************)
UsedRow(g, i) == \E j \in DOMAIN g[i] : g[i][j] # Empty
UsedColumn(g, j) == \E i \in DOMAIN g : g[i][j] # Empty

\* the last used row among the first i, and the last used column among the
\* first j (0 when there is none)
RECURSIVE LastUsedRow(_, _)
LastUsedRow(g, i) ==
    IF i = 0 THEN 0 ELSE IF UsedRow(g, i) THEN i ELSE LastUsedRow(g, i - 1)

RECURSIVE LastUsedColumn(_, _)
LastUsedColumn(g, j) ==
    IF j = 0 THEN 0 ELSE IF UsedColumn(g, j) THEN j ELSE LastUsedColumn(g, j - 1)

Height(g) == LastUsedRow(g, Len(g))
Width(g) == IF g = <<>> THEN 0 ELSE LastUsedColumn(g, Len(g[1]))

Trim(g, h, w) ==
    IF h = Len(g) /\ (h = 0 \/ w = Len(g[1])) THEN g
    ELSE [i \in 1..h |-> SubSeq(g[i], 1, w)]

\* read_excel(path, header=None): the raw grid
read_excel_raw(g) == Trim(g, Height(g), Width(g))

\* DataFrame.iat[r, c], 0-indexed; IndexError outside the frame
iat(frame, r, c) ==
    IF r + 1 \in DOMAIN frame /\ c + 1 \in DOMAIN frame[r + 1]
    THEN [ok |-> TRUE, cell |-> frame[r + 1][c + 1]]
    ELSE [ok |-> FALSE, cell |-> Empty]

Unnamed(j) ==
    CASE j = 0 -> "Unnamed: 0" [] j = 1 -> "Unnamed: 1" [] j = 2 -> "Unnamed: 2"
      [] j = 3 -> "Unnamed: 3" [] j = 4 -> "Unnamed: 4" [] j = 5 -> "Unnamed: 5"
      [] j = 6 -> "Unnamed: 6" [] j = 7 -> "Unnamed: 7" [] j = 8 -> "Unnamed: 8"

\* column label of a header cell (an empty header cell gets "Unnamed: j")
ColumnName(cell, j) == IF cell.t = "text" THEN cell.s ELSE Unnamed(j)

EmptyFrame == [columns |-> <<>>, rows |-> <<>>]

\* read_excel(path, skiprows=n): first row after the skipped ones is the
\* header, the rest are the data rows
read_excel_table(g, skiprows) ==
    LET raw == read_excel_raw(g)
    IN  IF Len(raw) <= skiprows THEN EmptyFrame
        ELSE LET cols == [j \in 1..Len(raw[skiprows + 1]) |->
                             ColumnName(raw[skiprows + 1][j], j - 1)]
                 at == [c \in Range(cols) |-> CHOOSE j \in DOMAIN cols : cols[j] = c]
             IN  [columns |-> cols,
                  rows |-> [i \in 1..(Len(raw) - skiprows - 1) |->
                              [c \in Range(cols) |-> raw[skiprows + 1 + i][at[c]]]]]

(***************************************************************************)
(* read_lengths                                                            *)
(***************************************************************************)
\* _cell(name): float(sheet.iat[r, c])
Cell_(frame, name) ==
    LET rc == LENGTH_CELLS[name]
        at == iat(frame, rc[1], rc[2])
    IN  IF ~at.ok THEN [ok |-> FALSE, err |-> "IndexError", v |-> NaN]
        ELSE IF ~PyFloat(at.cell).ok
             THEN [ok |-> FALSE, err |-> "ValueError", v |-> NaN]
        ELSE [ok |-> TRUE, err |-> "", v |-> PyFloat(at.cell).v]

LengthNames == <<"Ls", "Lx", "Ly", "Lz">>

\* the four cells are read in the order Ls, Lx, Ly, Lz; the first failure
\* is the exception that leaves the function
read_lengths(g) ==
    LET frame == read_excel_raw(g)
        got == [i \in 1..4 |-> Cell_(frame, LengthNames[i])]
        bad == {i \in 1..4 : ~got[i].ok}
    IN  IF bad # {}
        THEN [ok |-> FALSE, err |-> got[CHOOSE i \in bad : \A j \in bad : i <= j].err,
              v |-> <<>>]
        ELSE [ok |-> TRUE, err |-> "", v |-> [i \in 1..4 |-> got[i].v]]

(***************************************************************************)
(* read_restraint_table                                                    *)
(***************************************************************************)
Required == Range(REQUIRED_COLUMNS)

\* faulty variant: only the first absent column is reported
MissingColumnsFirst(frame) ==
    LET absent(c) == c \notin Range(frame.columns)
        all == SelectSeq(REQUIRED_COLUMNS, absent)
    IN  IF all = <<>> THEN <<>> ELSE <<Head(all)>>

\* [c for c in REQUIRED_COLUMNS if c not in df.columns]
MissingColumns(frame) ==
    LET absent(c) == c \notin Range(frame.columns)
    IN  SelectSeq(REQUIRED_COLUMNS, absent)

\* df[c] = pd.to_numeric(df[c], errors="coerce") for every required column
Coerce(frame) ==
    [frame EXCEPT !.rows =
        [i \in DOMAIN frame.rows |->
            [c \in DOMAIN frame.rows[i] |->
                IF c \in Required THEN Num(to_numeric(frame.rows[i][c]))
                ELSE frame.rows[i][c]]]]

\* faulty variant: dropna(how="all"), a row goes only when all required cells are NaN
DropNaAll(frame) ==
    LET kept(row) == \E c \in Required : ~IsNaN(row[c].v)
    IN  [frame EXCEPT !.rows = SelectSeq(frame.rows, kept)]

\* df.dropna(subset=REQUIRED_COLUMNS)
DropNa(frame) ==
    LET complete(row) == \A c \in Required : ~IsNaN(row[c].v)
    IN  [frame EXCEPT !.rows = SelectSeq(frame.rows, complete)]

read_restraint_table(g) ==
    LET frame == read_excel_table(g, TABLE_SKIPROWS)
        missing == MissingColumns(frame)
    IN  IF missing # <<>>
        THEN [ok |-> FALSE, err |-> "Missing required columns",
              missing |-> missing, df |-> EmptyFrame]
        ELSE LET cleaned == DropNa(Coerce(frame))
             IN  IF cleaned.rows = <<>>
                 THEN [ok |-> FALSE, err |-> "No valid rows found after cleaning",
                       missing |-> <<>>, df |-> EmptyFrame]
                 ELSE [ok |-> TRUE, err |-> "", missing |-> <<>>, df |-> cleaned]

(***************************************************************************)
(* The evaluation, lines 95-120 of compute_restraint_score.                *)
(***************************************************************************)
\* df[name] as a sequence of floats
Column(frame, name) == [i \in DOMAIN frame.rows |-> frame.rows[i][name].v]

\* df[name] = vals: replaces the column of that name, or appends a new one
SetColumn(frame, name, vals) ==
    LET cols == IF name \in Range(frame.columns) THEN frame.columns
                ELSE Append(frame.columns, name)
    IN  [columns |-> cols,
         rows |-> [i \in DOMAIN frame.rows |->
                      [c \in Range(cols) |->
                          IF c = name THEN Num(vals[i]) ELSE frame.rows[i][c]]]]

\* Series.sum(): NaN entries are skipped (skipna=True), the empty sum is 0.0
RECURSIVE SumFrom(_, _)
SumFrom(vals, i) ==
    IF i > Len(vals) THEN F(0)
    ELSE IF IsNaN(vals[i]) THEN SumFrom(vals, i + 1)
    ELSE Add(vals[i], SumFrom(vals, i + 1))

Sum(vals) == SumFrom(vals, 1)

\* faulty variant: the mean divides by m - 1
MeanDdof(vals) ==
    LET m == Cardinality({i \in DOMAIN vals : ~IsNaN(vals[i])})
    IN  IF m = 0 THEN NaN ELSE Div(Sum(vals), F(m - 1))

\* Series.mean(): over the entries that are not NaN
Mean(vals) ==
    LET m == Cardinality({i \in DOMAIN vals : ~IsNaN(vals[i])})
    IN  IF m = 0 THEN NaN ELSE Div(Sum(vals), F(m))

\* line 98: df["fdij"] = np.exp(-(df["dij"] - D0))
fdij(frame) ==
    SetColumn(frame, "fdij",
        [i \in DOMAIN frame.rows |-> Exp(Neg(Sub(frame.rows[i]["dij"].v, D0)))])

\* line 101: df["omega_ij"] = df["wi"] * df["fdij"]
omega_ij(frame) ==
    SetColumn(frame, "omega_ij",
        [i \in DOMAIN frame.rows |->
            Mul(frame.rows[i]["wi"].v, frame.rows[i]["fdij"].v)])

\* ((v - mu) / L) ** 2
SquaredDeviation(v, mu, L) == Sq(Div(Sub(v, mu), L))

\* lines 109-113, with the centroid of lines 104-106
sigma_P_terms(x, y, z, mu_x, mu_y, mu_z, L, n) ==
    [i \in DOMAIN x |->
        Div(Add(Add(SquaredDeviation(x[i], mu_x, L[2]),
                    SquaredDeviation(y[i], mu_y, L[3])),
                SquaredDeviation(z[i], mu_z, L[4])),
            F(n))]

sigma_P(frame, L) ==
    SetColumn(frame, "sigma_P",
        sigma_P_terms(Column(frame, "prot x coor"), Column(frame, "prot y coor"),
                      Column(frame, "prot z coor"),
                      Mean(Column(frame, "prot x coor")),
                      Mean(Column(frame, "prot y coor")),
                      Mean(Column(frame, "prot z coor")),
                      L, Len(frame.rows)))

\* lines 116-117
sigma_L_terms(sl, mu_s, Ls, n) ==
    [i \in DOMAIN sl |-> Div(SquaredDeviation(sl[i], mu_s, Ls), F(n))]

sigma_L(frame, L) ==
    SetColumn(frame, "sigma_L",
        sigma_L_terms(Column(frame, "sl"), Mean(Column(frame, "sl")), L[1],
                      Len(frame.rows)))

\* line 120: n * (omega_ij * (sigma_P + sigma_L)).sum()
Score(frame) ==
    Mul(Sum([i \in DOMAIN frame.rows |->
                Mul(frame.rows[i]["omega_ij"].v,
                    Add(frame.rows[i]["sigma_P"].v, frame.rows[i]["sigma_L"].v))]),
        F(Len(frame.rows)))

Scored(frame) == [df |-> frame, score |-> Score(frame)]

\* lines 95-120: the four columns are assigned in this order, then the score
Evaluate(frame, L) == Scored(sigma_L(sigma_P(omega_ij(fdij(frame)), L), L))

(***************************************************************************)
(* The report, lines 126-129.                                              *)
(***************************************************************************)
\* f"{score:.6f}": the value rounded to a multiple of 10^-6 (ties to even)
Format6(v) ==
    CASE v.k = "nan" -> [text |-> "nan", micro |-> 0]
      [] v.k = "pinf" -> [text |-> "inf", micro |-> 0]
      [] v.k = "ninf" -> [text |-> "-inf", micro |-> 0]
      [] v.k = "fin" /\ v.l = 0 ->
            LET q == (v.n * 1000000) \div v.d
                r == (v.n * 1000000) % v.d
                up == 2 * r > v.d \/ (2 * r = v.d /\ q % 2 = 1)
            IN  [text |-> "fixed", micro |-> IF up THEN q + 1 ELSE q]

ReportLines(L, sc) ==
    << [line |-> "File", val |-> <<>>],
       [line |-> "Lengths", val |-> L],
       [line |-> "Restraint Score", val |-> <<Format6(sc)>>],
       [line |-> "Wrote", val |-> <<>>] >>

(***************************************************************************)
(* State of one run.                                                       *)
(*   sheet     the input workbook's grid                                   *)
(*   pc        the statement of compute_restraint_score about to execute   *)
(*   lengths   <<Ls, Lx, Ly, Lz>> once read, <<>> before                   *)
(*   df        the data frame, EmptyFrame before the table is read         *)
(*   score     the score once computed, NoScore before                     *)
(*   out_file  the file <input>_output.xlsx                                *)
(*   console   the lines printed so far                                    *)
(*   error     the exception that ended the run, NoError if none           *)
(***************************************************************************)
NoScore == [k |-> "none", n |-> 0, d |-> 1, l |-> 0]
NoFile == [exists |-> FALSE, columns |-> <<>>, rows |-> <<>>]
NoError == [type |-> "", msg |-> "", missing |-> <<>>]

\* line 93, read_lengths returns
ReadLengthsOk ==
    /\ pc = "read_lengths"
    /\ LET got == read_lengths(sheet)
       IN  got.ok /\ lengths' = got.v
    /\ pc' = "read_table"
    /\ UNCHANGED <<sheet, df, score, out_file, console, error>>

\* line 93, read_lengths raises (IndexError from iat, ValueError from float)
ReadLengthsRaise ==
    /\ pc = "read_lengths"
    /\ LET got == read_lengths(sheet)
       IN  ~got.ok /\ error' = [type |-> got.err, msg |-> "", missing |-> <<>>]
    /\ pc' = "failed"
    /\ UNCHANGED <<sheet, lengths, df, score, out_file, console>>

\* line 94, read_restraint_table returns the cleaned frame
ReadTableOk ==
    /\ pc = "read_table"
    /\ LET got == read_restraint_table(sheet)
       IN  got.ok /\ df' = got.df
    /\ pc' = "evaluate"
    /\ UNCHANGED <<sheet, lengths, score, out_file, console, error>>

\* lines 72-74: a required column is absent
ReadTableMissing ==
    /\ pc = "read_table"
    /\ LET got == read_restraint_table(sheet)
       IN  /\ got.missing # <<>>
           /\ error' = [type |-> "ValueError", msg |-> got.err, missing |-> got.missing]
    /\ pc' = "failed"
    /\ UNCHANGED <<sheet, lengths, df, score, out_file, console>>

\* faulty variant: the empty frame is written out before the error is raised
ReadTableEmptyWritten ==
    /\ pc = "read_table"
    /\ LET got == read_restraint_table(sheet)
       IN  /\ ~got.ok
           /\ got.missing = <<>>
           /\ error' = [type |-> "ValueError", msg |-> got.err, missing |-> <<>>]
    /\ out_file' = [exists |-> TRUE, columns |-> <<>>, rows |-> <<>>]
    /\ pc' = "failed"
    /\ UNCHANGED <<sheet, lengths, df, score, console>>

\* lines 80-82: no row is left after dropna
ReadTableEmpty ==
    /\ pc = "read_table"
    /\ LET got == read_restraint_table(sheet)
       IN  /\ ~got.ok
           /\ got.missing = <<>>
           /\ error' = [type |-> "ValueError", msg |-> got.err, missing |-> <<>>]
    /\ pc' = "failed"
    /\ UNCHANGED <<sheet, lengths, df, score, out_file, console>>

\* lines 95-120
Compute ==
    /\ pc = "evaluate"
    /\ LET got == Evaluate(df, lengths)
       IN  df' = got.df /\ score' = got.score
    /\ pc' = "to_excel"
    /\ UNCHANGED <<sheet, lengths, out_file, console, error>>

\* lines 123-124: df.to_excel(out_path, index=False)
ToExcel ==
    /\ pc = "to_excel"
    /\ out_file' = [exists |-> TRUE, columns |-> df.columns, rows |-> df.rows]
    /\ pc' = "print"
    /\ UNCHANGED <<sheet, lengths, df, score, console, error>>

\* lines 126-129
Report ==
    /\ pc = "print"
    /\ console' = console \o ReportLines(lengths, score)
    /\ pc' = "return"
    /\ UNCHANGED <<sheet, lengths, df, score, out_file, error>>

\* faulty variant: the function returns right after the score is computed
ReturnAfterScore ==
    /\ pc \in {"to_excel", "return"}
    /\ pc' = "done"
    /\ UNCHANGED <<sheet, lengths, df, score, out_file, console, error>>

\* line 131: return df, score
Return ==
    /\ pc = "return"
    /\ pc' = "done"
    /\ UNCHANGED <<sheet, lengths, df, score, out_file, console, error>>

Next ==
    \/ ReadLengthsOk
    \/ ReadLengthsRaise
    \/ ReadTableOk
    \/ ReadTableMissing
    \/ ReadTableEmpty
    \/ Compute
    \/ ToExcel
    \/ Report
    \/ Return

(***************************************************************************)
(* Input workbooks.  Column A holds labels, B2..B5 the lengths, row 7 the  *)
(* table header and the rows below it the restraints.                      *)
(***************************************************************************)
Pad(row, w) == row \o [j \in 1..(w - Len(row)) |-> Empty]

MkSheet(lens, header, data) ==
    LET w == IF Len(header) > 2 THEN Len(header) ELSE 2
    IN  << Pad(<<Text("lengths")>>, w) >>
        \o [i \in 1..4 |-> Pad(<<Text(LengthNames[i]), lens[i]>>, w)]
        \o << Pad(<<>>, w) >>
        \o << Pad([j \in DOMAIN header |-> Text(header[j])], w) >>
        \o [i \in DOMAIN data |-> Pad([j \in DOMAIN header |-> data[i][header[j]]], w)]

Crop(g, nr, nc) == [i \in 1..nr |-> SubSeq(g[i], 1, nc)]

Dij(l) == Num(FinL(18, 10, l))

\* a restraint row at p = <<x, y, z, sl>> with weight wi and distance
\* D0 + l*ln(2); id goes to the non-required column "note"
Restraint(p, wi, l, id) ==
    [c \in Required \cup {"note", "fdij"} |->
        CASE c = "prot x coor" -> Num(F(p[1]))
          [] c = "prot y coor" -> Num(F(p[2]))
          [] c = "prot z coor" -> Num(F(p[3]))
          [] c = "sl" -> Num(F(p[4]))
          [] c = "wi" -> Num(F(wi))
          [] c = "dij" -> Dij(l)
          [] c = "note" -> Num(F(id))
          [] c = "fdij" -> Num(F(7))]

\* the two records of the worked example
ExampleRows ==
    << Restraint(<<0, 0, 0, 0>>, 1, 0, 1), Restraint(<<2, 0, 0, 2>>, 1, 0, 2) >>

UnitLengths == [i \in 1..4 |-> Num(F(1))]

SeqsUpTo(S, n) == UNION {[1..m -> S] : m \in 0..n}

\* 1. the length cells vary, the table is the worked example
LengthCells == {Num(F(i)) : i \in 1..MaxLength} \cup {Empty, Text("abc"), Text("2")}

LengthSheet(lens) == MkSheet(lens, REQUIRED_COLUMNS, ExampleRows)

\* 2. workbooks whose used range is smaller than B5
SmallSheet(nr, nc) == Crop(MkSheet(UnitLengths, <<>>, <<>>), nr, nc)

\* 3. any subset of the required columns, with or without further columns
ExtraColumns == {<<>>, <<"note">>, <<"fdij">>, <<"note", "fdij">>}

SchemaSheet(P, extra) ==
    LET present(c) == c \in P
    IN  MkSheet(UnitLengths, SelectSeq(REQUIRED_COLUMNS, present) \o extra, ExampleRows)

\* 4. rows with cells that do not hold a number
RowChoices ==
    ({{c} : c \in Required} \X {Empty})
    \cup ({{"prot x coor"}, {"wi"}, {"dij"}} \X {Text("abc")})
    \cup ({{"prot x coor"}, {"dij"}} \X {Text("inf")})
    \cup {<<{}, Empty>>, <<{"sl", "wi"}, Empty>>, <<Required, Text("abc")>>}

Spoil(row, D, cell) == [c \in DOMAIN row |-> IF c \in D THEN cell ELSE row[c]]

CleaningSheet(ch) ==
    MkSheet(UnitLengths, REQUIRED_COLUMNS \o <<"note">>,
            [i \in DOMAIN ch |-> Spoil(Restraint(<<2 * (i % 2), 0, 0, 2 * (i % 2)>>, 1, 0, i),
                                       ch[i][1], ch[i][2])])

\* 5. numeric tables and lengths, zero lengths among them
Points == {<<0, 0, 0, 0>>, <<2, 0, 0, 2>>, <<0, 2, 4, 0>>}
Weights == {<<1, 0>>, <<-1, -1>>}
ScoreRows == (Points \X Weights) \cup {<< <<0, 0, 0, 0>>, <<0, 0>> >>}
ScoreLengths ==
    {[i \in 1..4 |-> Num(F(IF i = p THEN v ELSE 1))] : p \in 1..4, v \in {0, 1, 2}}

ScoreSheet(lens, rs) ==
    MkSheet(lens, REQUIRED_COLUMNS,
            [i \in DOMAIN rs |-> Restraint(rs[i][1], rs[i][2][1], rs[i][2][2], i)])

InitSheet ==
    \/ \E lens \in [1..4 -> LengthCells] : sheet = LengthSheet(lens)
    \/ \E nr \in 0..5, nc \in 1..2 : sheet = SmallSheet(nr, nc)
    \/ \E P \in SUBSET Required, extra \in ExtraColumns : sheet = SchemaSheet(P, extra)
    \/ \E ch \in SeqsUpTo(RowChoices, MaxRows) : sheet = CleaningSheet(ch)
    \/ \E lens \in ScoreLengths, rs \in SeqsUpTo(ScoreRows, MaxRows) \ {<<>>} :
          sheet = ScoreSheet(lens, rs)

Init ==
    /\ InitSheet
    /\ pc = "read_lengths"
    /\ lengths = <<>>
    /\ df = EmptyFrame
    /\ score = NoScore
    /\ out_file = NoFile
    /\ console = <<>>
    /\ error = NoError

Spec == Init /\ [][Next]_vars

(***************************************************************************)
(* Facts about the input workbook, read off the grid itself.               *)
(***************************************************************************)
HeaderRow == TABLE_SKIPROWS + 1
HeaderCols ==
    IF Len(sheet) >= HeaderRow
    THEN {j \in DOMAIN sheet[HeaderRow] : sheet[HeaderRow][j].t = "text"}
    ELSE {}
InputColumns == {sheet[HeaderRow][j].s : j \in HeaderCols}
InputRows == 1..(IF Len(sheet) > HeaderRow THEN Len(sheet) - HeaderRow ELSE 0)
InputCell(i, c) ==
    sheet[HeaderRow + i][CHOOSE j \in HeaderCols : sheet[HeaderRow][j].s = c]

\* the required columns the input table lacks
MissingInInput == Required \ InputColumns

\* a cell that holds no number: empty, or a text that is no numeric literal
NotNumeric(cell) == cell = Empty \/ (cell.t = "text" /\ cell.s \notin {"inf", "2"})
DirtyRow(i) == \E c \in Required : NotNumeric(InputCell(i, c))
DirtyRows == {i \in InputRows : DirtyRow(i)}

LengthsRead == lengths # <<>>
TableStageOver == LengthsRead /\ pc \notin {"read_lengths", "read_table"}
Evaluated == pc \in {"to_excel", "print", "return", "done"}

MissingMsg == "Missing required columns"
EmptyMsg == "No valid rows found after cleaning"

(***************************************************************************)
(* C1: when the table lacks a non-empty set S of the required columns,     *)
(* read_restraint_table fails with an error listing exactly the columns of *)
(* S, each once, and no row has been coerced or dropped (the frame is      *)
(* still untouched); it raises that error in no other case.                *)
(***************************************************************************)
C1_MissingColumnsListed ==
    TableStageOver =>
        /\ (MissingInInput # {}) <=> (error.msg = MissingMsg)
        /\ error.msg = MissingMsg =>
              /\ pc = "failed"
              /\ Range(error.missing) = MissingInInput
              /\ Len(error.missing) = Cardinality(MissingInInput)
              /\ df = EmptyFrame

C1_Witness ==
    /\ pc = "failed"
    /\ error.msg = MissingMsg
    /\ Range(error.missing) = {"sl", "dij"}
    /\ "note" \in InputColumns

(***************************************************************************)
(* C3: when all required columns are present and every data row has a     *)
(* non-numeric or missing value in some required column (also when there   *)
(* is no data row), read_restraint_table fails with the empty-data error   *)
(* and returns no table; every frame that reaches the evaluation has at    *)
(* least one row.                                                          *)
(***************************************************************************)
C3_EmptyTableFails ==
    /\ (TableStageOver /\ MissingInInput = {} /\ DirtyRows = InputRows) =>
          (pc = "failed" /\ error.msg = EmptyMsg /\ df = EmptyFrame)
    /\ (pc = "evaluate" \/ Evaluated) => Len(df.rows) >= 1

C3_Witness ==
    /\ pc = "failed"
    /\ error.msg = EmptyMsg
    /\ Cardinality(InputRows) = 2
    /\ \E i \in InputRows : ~NotNumeric(InputCell(i, "dij"))

\* the input rows without a non-numeric cell, and the j-th of them
CleanRows == InputRows \ DirtyRows
NthOf(S, j) == CHOOSE i \in S : Cardinality({h \in S : h <= i}) = j
NthClean(j) == NthOf(CleanRows, j)

(***************************************************************************)
(* C2: of n rows of which k < n hold a non-numeric or missing value in a   *)
(* required column, read_restraint_table returns exactly the n-k others,   *)
(* in their original order and with their other columns untouched, and     *)
(* every required field of a returned row is a finite number.              *)
(***************************************************************************)
C2_CleanRowsKeptAndFinite ==
    pc = "evaluate" =>
        /\ Len(df.rows) = Cardinality(InputRows) - Cardinality(DirtyRows)
        /\ \A j \in DOMAIN df.rows :
              /\ \A c \in InputColumns \ Required : df.rows[j][c] = InputCell(NthClean(j), c)
              /\ \A c \in Required : IsFinite(df.rows[j][c].v)

(***************************************************************************)
(* C4: on a grid of at least 5 rows by 2 columns with numbers in B2..B5,   *)
(* read_lengths returns exactly those four numbers as (Ls, Lx, Ly, Lz),    *)
(* and returns the same whatever any other cell of the grid is changed to. *)
(***************************************************************************)
B2 == <<2, 2>>
B3 == <<3, 2>>
B4 == <<4, 2>>
B5 == <<5, 2>>
LengthPositions == {B2, B3, B4, B5}
InGrid(pos) == pos[1] \in DOMAIN sheet /\ pos[2] \in DOMAIN sheet[pos[1]]
At(pos) == sheet[pos[1]][pos[2]]
IsNumber(cell) == cell.t = "num" /\ IsFinite(cell.v)
Alter(g, i, j, cell) == [g EXCEPT ![i][j] = cell]
Changed(cell) == IF cell = Empty THEN Text("abc") ELSE Empty

NumericLengthCells == \A pos \in LengthPositions : InGrid(pos) /\ IsNumber(At(pos))

C4_LengthsFromFixedCells ==
    (pc # "read_lengths" /\ NumericLengthCells) =>
        /\ lengths = <<At(B2).v, At(B3).v, At(B4).v, At(B5).v>>
        /\ pc = "read_table" =>
              \A i \in DOMAIN sheet : \A j \in DOMAIN sheet[i] :
                 <<i, j>> \notin LengthPositions =>
                    read_lengths(Alter(sheet, i, j, Changed(sheet[i][j]))) =
                       [ok |-> TRUE, err |-> "", v |-> lengths]

C4_Witness ==
    /\ pc = "read_table"
    /\ NumericLengthCells
    /\ lengths = <<F(2), F(1), F(2), F(2)>>

(***************************************************************************)
(* C5: read_lengths fails, and returns no lengths, when one of the four    *)
(* length cells is empty, when one holds a text that is no number, or when *)
(* the grid is smaller than 5 rows by 2 columns.                           *)
(***************************************************************************)
C5_BadLengthCellFails ==
    (/\ pc # "read_lengths"
     /\ \E pos \in LengthPositions : ~InGrid(pos) \/ NotNumeric(At(pos)))
    => (pc = "failed" /\ lengths = <<>> /\ error.type # "")

(***************************************************************************)
(* The score of the claim's formula, computed from the input rows that     *)
(* hold a number in every required column, with plain sums of reals.       *)
(***************************************************************************)
RECURSIVE Total(_)
Total(seq) == IF seq = <<>> THEN F(0) ELSE Add(Head(seq), Total(Tail(seq)))

SurvivorCount == Cardinality(CleanRows)
Survivors == 1..SurvivorCount
Value(j, c) == InputCell(NthClean(j), c).v
Omega(j) == Mul(Value(j, "wi"), Exp(Sub(D0, Value(j, "dij"))))

CleanValuesOf(clean) ==
    [c \in Required |->
        [j \in 1..Cardinality(clean) |-> InputCell(NthOf(clean, j), c).v]]
FormulaMeans(val) == [c \in Required |-> Div(Total(val[c]), F(Len(val[c])))]
FormulaDeviation(val, mu, j, c, L) == Sq(Div(Sub(val[c][j], mu[c]), L))
FormulaSigmaP(val, mu, j) ==
    Div(Add(Add(FormulaDeviation(val, mu, j, "prot x coor", lengths[2]),
                FormulaDeviation(val, mu, j, "prot y coor", lengths[3])),
            FormulaDeviation(val, mu, j, "prot z coor", lengths[4])),
        F(Len(val["wi"])))
FormulaSigmaL(val, mu, j) ==
    Div(FormulaDeviation(val, mu, j, "sl", lengths[1]), F(Len(val["wi"])))
FormulaOmega(val, j) == Mul(val["wi"][j], Exp(Sub(D0, val["dij"][j])))
FormulaScoreWith(val, mu) ==
    Mul(F(Len(val["wi"])),
        Total([j \in DOMAIN val["wi"] |->
                  Mul(FormulaOmega(val, j),
                      Add(FormulaSigmaP(val, mu, j), FormulaSigmaL(val, mu, j)))]))
FormulaScoreOf(val) == FormulaScoreWith(val, FormulaMeans(val))

FormulaScore == FormulaScoreOf(CleanValuesOf(CleanRows))

\* every surviving row holds finite numbers, every length is finite and not 0
FiniteTable == \A i \in CleanRows : \A c \in Required : IsNumber(InputCell(i, c))
NonZeroLengths == \A h \in 1..4 : IsFinite(lengths[h]) /\ lengths[h].n # 0

(***************************************************************************)
(* C6: for a cleaned table of n >= 1 records of finite numbers and finite  *)
(* non-zero lengths, the score equals n * sum_i(omega_ij_i * (sigma_P_i +  *)
(* sigma_L_i)) with n and the centroids taken over the surviving rows; for *)
(* unit lengths and the records (0,0,0,sl=0,wi=1,dij=1.8) and              *)
(* (2,0,0,sl=2,wi=1,dij=1.8) it is 4.                                      *)
(***************************************************************************)
C6_ScoreFormula ==
    /\ (pc = "done" /\ FiniteTable /\ NonZeroLengths) => score = FormulaScore
    /\ (pc = "done" /\ sheet = LengthSheet(UnitLengths)) => score = F(4)

C6_Witness ==
    /\ pc = "done"
    /\ FiniteTable /\ NonZeroLengths
    /\ SurvivorCount = 2
    /\ lengths = <<F(1), F(2), F(1), F(1)>>
    /\ \E j \in Survivors : Omega(j) = F(-2)
    /\ score.n # 0 /\ score.d # 1

(***************************************************************************)
(* C7: a run that fails in length extraction, on a missing column or on an *)
(* empty cleaned table ends with that error and leaves the output file     *)
(* unwritten; the output file exists only once both readers and the score  *)
(* computation have completed; the report is printed only in runs that     *)
(* wrote the output file.                                                  *)
(***************************************************************************)
C7_NoOutputOnFailure ==
    /\ pc = "failed" <=> error # NoError
    /\ pc = "failed" => (out_file = NoFile /\ console = <<>> /\ score = NoScore)
    /\ out_file.exists =>
          (LengthsRead /\ df.rows # <<>> /\ score # NoScore /\ error = NoError)
    /\ console # <<>> => out_file.exists

C7_Witness ==
    /\ pc = "failed"
    /\ error.msg = EmptyMsg
    /\ LengthsRead
    /\ out_file = NoFile

(***************************************************************************)
(* C8: the output of a successful run holds exactly the rows that survived *)
(* cleaning, every column of the input table with its value unchanged, and *)
(* the columns fdij, omega_ij, sigma_P, sigma_L appended after them, also  *)
(* when the input has a non-required column named like a computed one.     *)
(***************************************************************************)
ComputedColumns == <<"fdij", "omega_ij", "sigma_P", "sigma_L">>
InputHeader == [j \in DOMAIN sheet[HeaderRow] |-> sheet[HeaderRow][j].s]

C8_InputColumnsPreserved ==
    pc = "done" =>
        /\ out_file.exists
        /\ Len(out_file.rows) = SurvivorCount
        /\ out_file.columns = InputHeader \o ComputedColumns
        /\ \A j \in DOMAIN out_file.rows :
              /\ \A c \in InputColumns \ Required :
                    out_file.rows[j][c] = InputCell(NthClean(j), c)
              /\ \A c \in Required :
                    out_file.rows[j][c].v = to_numeric(InputCell(NthClean(j), c))

(***************************************************************************)
(* C9: with numbers in all four length cells, one of them exactly zero,    *)
(* and a valid table, the run raises no error and goes on to the end, the  *)
(* output file and the report are produced, and the score is infinite or   *)
(* NaN.                                                                    *)
(***************************************************************************)
ZeroLengthInput ==
    /\ NumericLengthCells
    /\ \E pos \in LengthPositions : At(pos).v = F(0)
    /\ MissingInInput = {}
    /\ CleanRows # {}
    /\ FiniteTable

RunsOn ==
    /\ pc # "failed" /\ error = NoError
    /\ pc # "read_lengths" => LengthsRead
    /\ pc = "done" => (out_file.exists /\ console # <<>>)

C9_ZeroLengthInfOrNaN ==
    ZeroLengthInput =>
        /\ RunsOn
        /\ Evaluated => score.k \in {"pinf", "ninf", "nan"}

(***************************************************************************)
(* C9 as amended: ... and the score is infinite, NaN or 0.0; it is 0.0     *)
(* when the term of every row is NaN, because the sum skips NaN terms.     *)
(***************************************************************************)
C9_ZeroLengthInfNaNOrZero ==
    ZeroLengthInput =>
        /\ RunsOn
        /\ Evaluated => (score.k \in {"pinf", "ninf", "nan"} \/ score = F(0))
        /\ (Evaluated /\ score = F(0)) =>
              \A j \in DOMAIN df.rows :
                 IsNaN(Add(df.rows[j]["sigma_P"].v, df.rows[j]["sigma_L"].v))
                 \/ IsNaN(Mul(df.rows[j]["omega_ij"].v,
                              Add(df.rows[j]["sigma_P"].v, df.rows[j]["sigma_L"].v)))

C9_Witness ==
    /\ pc = "done"
    /\ ZeroLengthInput
    /\ SurvivorCount = 2
    /\ score = F(0)
    /\ console # <<>>

(***************************************************************************)
(* C10: compute_restraint_score neither writes the output file nor prints; *)
(* both happen only after it has returned.                                 *)
(***************************************************************************)
C10_EffectsAfterReturn ==
    (out_file.exists \/ console # <<>>) => pc = "done"

(***************************************************************************)
(* C10 as amended: compute_restraint_score is given the path, calls both   *)
(* readers itself and, once the score is computed, writes the output file  *)
(* and then prints the report before it returns: whenever it has returned, *)
(* the file is written and the report printed.                             *)
(***************************************************************************)
C10_EffectsBeforeReturn ==
    /\ pc = "done" =>
          (LengthsRead /\ score # NoScore /\ out_file.exists /\ Len(console) = 4)
    /\ out_file.exists => (pc \in {"print", "return", "done"} /\ score # NoScore)
    /\ console # <<>> => (pc \in {"return", "done"} /\ out_file.exists)
    /\ out_file.exists =>
          (out_file.columns = df.columns /\ out_file.rows = df.rows)

C10_Witness ==
    /\ pc = "return"
    /\ out_file.exists
    /\ console # <<>>

====
